---- MODULE Spec2Model ----
(***************************************************************************)
(* Model of the Buffy MPSC channel: src/src/shared_state.rs (SharedState,  *)
(* channel), src/src/sender.rs (Sender: send, close, clone, drop) and      *)
(* src/src/receiver.rs (Receiver: recv, try_recv).                         *)
(*                                                                         *)
(* Threads: producer threads 1..NumProducers, each owning at most one      *)
(* Sender handle, and one consumer thread owning the Receiver.  Every      *)
(* access to an atomic (closed, num_senders) and every lock operation is   *)
(* a separate step, except that work touching only the queue while         *)
(* the mutex is held is merged with the step that releases the mutex.      *)
(* Atomics are modelled as sequentially consistent single cells.           *)
(***************************************************************************)
EXTENDS Integers, Sequences, FiniteSets, Bags, TLC

\* ---- bounds ----
NumProducers == 2
MaxSends == 2

\* ---- identities of the mutex holder ----
Free == 0
Rx == -1

Producers == 1..NumProducers

VARIABLES
    elements,       \* SharedState.elements: the VecDeque behind the Mutex
    lock,           \* holder of the Mutex: Free, Rx or a producer
    closed,         \* SharedState.closed
    num_senders,    \* SharedState.num_senders
    ppc,            \* per producer thread: position in its current operation
    pitem,          \* per producer: the item of the send in progress
    pres,           \* result of the last send/close that returned, on any producer
    sendCalls,      \* number of send calls made so far, over all producers
    cloneTarget,    \* per producer: thread receiving the handle being cloned
    cpc,            \* consumer: position in its current operation
    cres,           \* consumer: result of its last recv/try_recv
    recvLog,        \* history: items returned by recv/try_recv, in order
    closedSeen,     \* history: some recv/try_recv has returned ChannelClosed
    sentLog,        \* history: items appended by send, in append order
    okSent,         \* history: items whose send returned Ok
    closeReturned,  \* history: some close() call has returned
    afterClose,     \* history, per producer: its send in progress was called after a close() returned
    closeSnapshot   \* history: queue contents when closed became true

vars == <<elements, lock, closed, num_senders, ppc, pitem, pres, sendCalls,
          cloneTarget, cpc, cres, recvLog, closedSeen, sentLog, okSent,
          closeReturned, afterClose, closeSnapshot>>

shared == <<elements, lock, closed, num_senders>>
prodVars == <<ppc, pitem, pres, sendCalls, cloneTarget>>
consVars == <<cpc, cres, recvLog, closedSeen>>
histVars == <<sentLog, okSent, closeReturned, afterClose, closeSnapshot>>

NoItem == <<0, 0>>
NoThread == 0

\* a returned producer operation: which one, its result, and whether it was
\* called on a channel some close() had already returned from (send) or that
\* was already closed (close)
NoResult == [op |-> "none", res |-> "none", late |-> FALSE]
Result(op, res, late) == [op |-> op, res |-> res, late |-> late]

Range(s) == {s[i] : i \in 1..Len(s)}

\* ---- VecDeque operations ----
\* variant: the item is put at the front of the deque
push_front(q, item) == <<item>> \o q

push_back(q, item) == Append(q, item)

pop_front_item(q) == Head(q)

\* variant: the pop discards the item behind the front one as well
pop_front_rest_skip(q) == IF Len(q) >= 2 THEN Tail(Tail(q)) ELSE Tail(q)

pop_front_rest(q) == Tail(q)

\* ---- channel() ----
Init ==
    /\ elements = <<>>
    /\ lock = Free
    /\ closed = FALSE
    /\ num_senders = 1
    /\ ppc = [p \in Producers |-> IF p = 1 THEN "idle" ELSE "none"]
    /\ pitem = [p \in Producers |-> NoItem]
    /\ pres = NoResult
    /\ sendCalls = 0
    /\ cloneTarget = [p \in Producers |-> NoThread]
    /\ cpc = "idle"
    /\ cres = "none"
    /\ recvLog = <<>>
    /\ closedSeen = FALSE
    /\ sentLog = <<>>
    /\ okSent = {}
    /\ closeReturned = FALSE
    /\ afterClose = [p \in Producers |-> FALSE]
    /\ closeSnapshot = {}

\* variant: the store flips the flag instead of setting it
StoreClosedToggles ==
    /\ closed' = ~closed
    /\ closeSnapshot' = IF closed THEN closeSnapshot ELSE Range(elements)

\* the transition of closed to true, with the history of the queue at that moment
StoreClosed ==
    /\ closed' = TRUE
    /\ closeSnapshot' = IF closed THEN closeSnapshot ELSE Range(elements)

\* ---- Sender::send ----
SendCall(p) ==
    /\ ppc[p] = "idle"
    /\ sendCalls < MaxSends
    /\ ppc' = [ppc EXCEPT ![p] = "s_lock"]
    /\ sendCalls' = sendCalls + 1
    /\ pitem' = [pitem EXCEPT ![p] = <<p, sendCalls + 1>>]
    /\ afterClose' = [afterClose EXCEPT ![p] = closeReturned]
    /\ UNCHANGED <<shared, pres, cloneTarget, consVars, sentLog, okSent, closeReturned,
                   closeSnapshot>>

\* elements.lock().unwrap()
SendLock(p) ==
    /\ ppc[p] = "s_lock"
    /\ lock = Free
    /\ lock' = p
    /\ ppc' = [ppc EXCEPT ![p] = "s_check"]
    /\ UNCHANGED <<elements, closed, num_senders, pitem, pres, sendCalls,
                   cloneTarget, consVars, histVars>>

\* variant: send does not look at closed
SendCheckIgnoresClosed(p) ==
    /\ ppc[p] = "s_check"
    /\ ppc' = [ppc EXCEPT ![p] = "s_push"]
    /\ UNCHANGED <<shared, pitem, pres, sendCalls, cloneTarget, consVars, histVars>>

\* if closed.load() { return Err(ChannelClosed) }
SendCheck(p) ==
    /\ ppc[p] = "s_check"
    /\ IF closed
         THEN /\ lock' = Free
              /\ ppc' = [ppc EXCEPT ![p] = "idle"]
              /\ pres' = Result("send", "ChannelClosed", afterClose[p])
              /\ pitem' = [pitem EXCEPT ![p] = NoItem]
              /\ afterClose' = [afterClose EXCEPT ![p] = FALSE]
         ELSE /\ ppc' = [ppc EXCEPT ![p] = "s_push"]
              /\ UNCHANGED <<lock, pres, pitem, afterClose>>
    /\ UNCHANGED <<elements, closed, num_senders, sendCalls, cloneTarget,
                   consVars, sentLog, okSent, closeReturned, closeSnapshot>>

\* variant: send does not signal the condition
SendPushNoNotify(p) ==
    /\ ppc[p] = "s_push"
    /\ elements' = push_back(elements, pitem[p])
    /\ sentLog' = Append(sentLog, pitem[p])
    /\ okSent' = okSent \cup {pitem[p]}
    /\ lock' = Free
    /\ ppc' = [ppc EXCEPT ![p] = "idle"]
    /\ pres' = Result("send", "Ok", afterClose[p])
    /\ pitem' = [pitem EXCEPT ![p] = NoItem]
    /\ afterClose' = [afterClose EXCEPT ![p] = FALSE]
    /\ UNCHANGED <<closed, num_senders, sendCalls, cloneTarget, consVars,
                   closeReturned, closeSnapshot>>

\* elements.push_back(item); is_empty.notify_one(); Ok(())
SendPush(p) ==
    /\ ppc[p] = "s_push"
    /\ elements' = push_back(elements, pitem[p])
    /\ sentLog' = Append(sentLog, pitem[p])
    /\ okSent' = okSent \cup {pitem[p]}
    /\ cpc' = IF cpc = "r_wait" THEN "r_woken" ELSE cpc
    /\ lock' = Free
    /\ ppc' = [ppc EXCEPT ![p] = "idle"]
    /\ pres' = Result("send", "Ok", afterClose[p])
    /\ pitem' = [pitem EXCEPT ![p] = NoItem]
    /\ afterClose' = [afterClose EXCEPT ![p] = FALSE]
    /\ UNCHANGED <<closed, num_senders, sendCalls, cloneTarget, cres, recvLog,
                   closeReturned, closeSnapshot>>
    /\ UNCHANGED closedSeen

\* variant: close also discards what is queued
CloseAndClear(p) ==
    /\ ppc[p] = "idle"
    /\ StoreClosed
    /\ elements' = <<>>
    /\ pres' = Result("close", "Ok", closed)
    /\ closeReturned' = TRUE
    /\ UNCHANGED <<lock, num_senders, ppc, pitem, sendCalls,
                   cloneTarget, consVars, sentLog, okSent, afterClose>>

\* ---- Sender::close ----
Close(p) ==
    /\ ppc[p] = "idle"
    /\ StoreClosed
    /\ pres' = Result("close", "Ok", closed)
    /\ closeReturned' = TRUE
    /\ UNCHANGED <<elements, lock, num_senders, ppc, pitem, sendCalls,
                   cloneTarget, consVars, sentLog, okSent, afterClose>>

\* variant: clone does not count the new handle
CloneIncNoCount(p, q) ==
    /\ ppc[p] = "idle"
    /\ ppc[q] = "none"
    /\ ppc' = [ppc EXCEPT ![p] = "cl_ret", ![q] = "pending"]
    /\ cloneTarget' = [cloneTarget EXCEPT ![p] = q]
    /\ UNCHANGED <<shared, pitem, pres, sendCalls, consVars, histVars>>

\* ---- Clone for Sender ----
CloneInc(p, q) ==
    /\ ppc[p] = "idle"
    /\ ppc[q] = "none"
    /\ num_senders' = num_senders + 1
    /\ ppc' = [ppc EXCEPT ![p] = "cl_ret", ![q] = "pending"]
    /\ cloneTarget' = [cloneTarget EXCEPT ![p] = q]
    /\ UNCHANGED <<elements, lock, closed, pitem, pres, sendCalls, consVars, histVars>>

CloneRet(p) ==
    /\ ppc[p] = "cl_ret"
    /\ ppc' = [ppc EXCEPT ![p] = "idle", ![cloneTarget[p]] = "idle"]
    /\ cloneTarget' = [cloneTarget EXCEPT ![p] = NoThread]
    /\ UNCHANGED <<shared, pitem, pres, sendCalls, consVars, histVars>>

\* variant: drop closes the channel whatever the count
DropLoadAnyCount(p) ==
    /\ ppc[p] = "idle"
    /\ ppc' = [ppc EXCEPT ![p] = "d_store"]
    /\ UNCHANGED <<shared, pitem, pres, sendCalls, cloneTarget, consVars, histVars>>

\* ---- Drop for Sender ----
\* if num_senders.load() == 1
DropLoad(p) ==
    /\ ppc[p] = "idle"
    /\ ppc' = [ppc EXCEPT ![p] = IF num_senders = 1 THEN "d_store" ELSE "d_sub"]
    /\ UNCHANGED <<shared, pitem, pres, sendCalls, cloneTarget, consVars, histVars>>

\* closed.store(true)
DropStore(p) ==
    /\ ppc[p] = "d_store"
    /\ StoreClosed
    /\ ppc' = [ppc EXCEPT ![p] = "d_sub"]
    /\ UNCHANGED <<elements, lock, num_senders, pitem, pres, sendCalls,
                   cloneTarget, consVars, sentLog, okSent, closeReturned, afterClose>>

\* num_senders.fetch_sub(1)
DropSub(p) ==
    /\ ppc[p] = "d_sub"
    /\ num_senders' = num_senders - 1
    /\ ppc' = [ppc EXCEPT ![p] = "gone"]
    /\ UNCHANGED <<elements, lock, closed, pitem, pres, sendCalls,
                   cloneTarget, consVars, histVars>>

\* ---- Receiver::recv ----
RecvCall ==
    /\ cpc = "idle"
    /\ cpc' = "r_lock"
    /\ cres' = "none"
    /\ UNCHANGED <<shared, prodVars, recvLog, histVars>>
    /\ UNCHANGED closedSeen

\* variant: "if" instead of "while": after a wake-up recv pops without
\* looking at the queue again, and the unwrap of an empty pop panics
RecvLockPopsAfterWake ==
    /\ cpc \in {"r_lock", "r_woken"}
    /\ lock = Free
    /\ IF cpc = "r_lock"
         THEN /\ lock' = Rx
              /\ cpc' = "r_check"
              /\ UNCHANGED <<elements, recvLog, cres>>
         ELSE /\ cpc' = "idle"
              /\ UNCHANGED lock
              /\ IF elements # <<>>
                   THEN /\ recvLog' = Append(recvLog, pop_front_item(elements))
                        /\ elements' = pop_front_rest(elements)
                        /\ cres' = "Item"
                   ELSE /\ cres' = "Panic"
                        /\ UNCHANGED <<elements, recvLog>>
    /\ UNCHANGED <<closed, num_senders, prodVars, closedSeen, histVars>>

\* elements.lock().unwrap(), and the re-acquisition when condvar.wait returns
RecvLock ==
    /\ cpc \in {"r_lock", "r_woken"}
    /\ lock = Free
    /\ lock' = Rx
    /\ cpc' = "r_check"
    /\ UNCHANGED <<elements, closed, num_senders, prodVars, cres,
                   recvLog, histVars>>
    /\ UNCHANGED closedSeen

\* variant: recv looks at closed before it looks at the queue
RecvCheckClosedFirst ==
    /\ cpc = "r_check"
    /\ IF closed
         THEN /\ cres' = "ChannelClosed"
              /\ cpc' = "idle"
              /\ lock' = Free
              /\ UNCHANGED <<elements, recvLog>>
         ELSE IF elements # <<>>
                THEN /\ recvLog' = Append(recvLog, pop_front_item(elements))
                     /\ elements' = pop_front_rest(elements)
                     /\ cres' = "Item"
                     /\ cpc' = "idle"
                     /\ lock' = Free
                ELSE /\ cpc' = "r_towait"
                     /\ UNCHANGED <<elements, recvLog, cres, lock>>
    /\ UNCHANGED <<closed, num_senders, prodVars, histVars>>
    /\ closedSeen' = (closedSeen \/ cres' = "ChannelClosed")

\* variant: recv waits on an empty queue without looking at closed
RecvCheckWaitsFirst ==
    /\ cpc = "r_check"
    /\ IF elements # <<>>
         THEN /\ recvLog' = Append(recvLog, pop_front_item(elements))
              /\ elements' = pop_front_rest(elements)
              /\ cres' = "Item"
              /\ cpc' = "idle"
              /\ lock' = Free
         ELSE /\ cpc' = "r_towait"
              /\ UNCHANGED <<elements, recvLog, cres, lock>>
    /\ UNCHANGED <<closed, num_senders, prodVars, closedSeen, histVars>>

\* while elements.is_empty() { if closed.load() { return Err } ... } Ok(pop_front)
RecvCheck ==
    /\ cpc = "r_check"
    /\ IF elements # <<>>
         THEN /\ recvLog' = Append(recvLog, pop_front_item(elements))
              /\ elements' = pop_front_rest(elements)
              /\ cres' = "Item"
              /\ cpc' = "idle"
              /\ lock' = Free
         ELSE IF closed
                THEN /\ cres' = "ChannelClosed"
                     /\ cpc' = "idle"
                     /\ lock' = Free
                     /\ UNCHANGED <<elements, recvLog>>
                ELSE /\ cpc' = "r_towait"
                     /\ UNCHANGED <<elements, recvLog, cres, lock>>
    /\ UNCHANGED <<closed, num_senders, prodVars, histVars>>
    /\ closedSeen' = (closedSeen \/ cres' = "ChannelClosed")

\* condvar.wait(elements): release the mutex and block
RecvWait ==
    /\ cpc = "r_towait"
    /\ cpc' = "r_wait"
    /\ lock' = Free
    /\ UNCHANGED <<elements, closed, num_senders, prodVars, cres,
                   recvLog, histVars>>
    /\ UNCHANGED closedSeen

\* condvar.wait may return without a notification
SpuriousWake ==
    /\ cpc = "r_wait"
    /\ cpc' = "r_woken"
    /\ UNCHANGED <<shared, prodVars, cres, recvLog, histVars>>
    /\ UNCHANGED closedSeen

\* ---- Receiver::try_recv ----
TryRecvCall ==
    /\ cpc = "idle"
    /\ cpc' = "t_load"
    /\ cres' = "none"
    /\ UNCHANGED <<shared, prodVars, recvLog, histVars>>
    /\ UNCHANGED closedSeen

\* if closed.load(Acquire)
TryLoad ==
    /\ cpc = "t_load"
    /\ cpc' = IF closed THEN "t_lock1" ELSE "t_lock2"
    /\ UNCHANGED <<shared, prodVars, cres, recvLog, histVars>>
    /\ UNCHANGED closedSeen

\* variant: on a closed channel a contended lock is reported as ChannelClosed
TryLock1ClosedOnContention ==
    /\ cpc = "t_lock1"
    /\ cpc' = "idle"
    /\ IF lock = Free /\ elements # <<>>
         THEN /\ recvLog' = Append(recvLog, pop_front_item(elements))
              /\ elements' = pop_front_rest(elements)
              /\ cres' = "Item"
         ELSE /\ cres' = "ChannelClosed"
              /\ UNCHANGED <<elements, recvLog>>
    /\ UNCHANGED <<lock, closed, num_senders, prodVars, histVars>>
    /\ closedSeen' = (closedSeen \/ cres' = "ChannelClosed")

\* if let Ok(guard) = try_lock() { return pop_front or Err(ChannelClosed) }
TryLock1 ==
    /\ cpc = "t_lock1"
    /\ IF lock = Free
         THEN /\ cpc' = "idle"
              /\ IF elements # <<>>
                   THEN /\ recvLog' = Append(recvLog, pop_front_item(elements))
                        /\ elements' = pop_front_rest(elements)
                        /\ cres' = "Item"
                   ELSE /\ cres' = "ChannelClosed"
                        /\ UNCHANGED <<elements, recvLog>>
         ELSE /\ cpc' = "t_lock2"
              /\ UNCHANGED <<elements, recvLog, cres>>
    /\ UNCHANGED <<lock, closed, num_senders, prodVars, histVars>>
    /\ closedSeen' = (closedSeen \/ cres' = "ChannelClosed")

\* variant: the second attempt is lock() instead of try_lock()
TryLock2Waits ==
    /\ cpc = "t_lock2"
    /\ lock = Free
    /\ cpc' = "idle"
    /\ IF elements # <<>>
         THEN /\ recvLog' = Append(recvLog, pop_front_item(elements))
              /\ elements' = pop_front_rest(elements)
              /\ cres' = "Item"
         ELSE /\ cres' = "ChannelEmpty"
              /\ UNCHANGED <<elements, recvLog>>
    /\ UNCHANGED <<lock, closed, num_senders, prodVars, histVars>>
    /\ UNCHANGED closedSeen

\* variant: the two error results of the second attempt are swapped
TryLock2ErrorsSwapped ==
    /\ cpc = "t_lock2"
    /\ cpc' = "idle"
    /\ IF lock = Free
         THEN IF elements # <<>>
                THEN /\ recvLog' = Append(recvLog, pop_front_item(elements))
                     /\ elements' = pop_front_rest(elements)
                     /\ cres' = "Item"
                ELSE /\ cres' = "RecvBlocked"
                     /\ UNCHANGED <<elements, recvLog>>
         ELSE /\ cres' = "ChannelEmpty"
              /\ UNCHANGED <<elements, recvLog>>
    /\ UNCHANGED <<lock, closed, num_senders, prodVars, histVars>>
    /\ UNCHANGED closedSeen

\* if let Ok(guard) = try_lock() { pop_front or Err(ChannelEmpty) } else { Err(RecvBlocked) }
TryLock2 ==
    /\ cpc = "t_lock2"
    /\ cpc' = "idle"
    /\ IF lock = Free
         THEN IF elements # <<>>
                THEN /\ recvLog' = Append(recvLog, pop_front_item(elements))
                     /\ elements' = pop_front_rest(elements)
                     /\ cres' = "Item"
                ELSE /\ cres' = "ChannelEmpty"
                     /\ UNCHANGED <<elements, recvLog>>
         ELSE /\ cres' = "RecvBlocked"
              /\ UNCHANGED <<elements, recvLog>>
    /\ UNCHANGED <<lock, closed, num_senders, prodVars, histVars>>
    /\ UNCHANGED closedSeen

ProducerStep(p) ==
    \/ SendLock(p)
    \/ SendCheck(p)
    \/ SendPush(p)
    \/ CloneRet(p)
    \/ DropStore(p)
    \/ DropSub(p)

ConsumerStep ==
    \/ RecvLock
    \/ RecvCheck
    \/ RecvWait
    \/ TryLoad
    \/ TryLock1
    \/ TryLock2

Next ==
    \/ \E p \in Producers : SendCall(p)
    \/ \E p \in Producers : SendLock(p)
    \/ \E p \in Producers : SendCheck(p)
    \/ \E p \in Producers : SendPush(p)
    \/ \E p \in Producers : Close(p)
    \/ \E p \in Producers : \E q \in Producers : CloneInc(p, q)
    \/ \E p \in Producers : CloneRet(p)
    \/ \E p \in Producers : DropLoad(p)
    \/ \E p \in Producers : DropStore(p)
    \/ \E p \in Producers : DropSub(p)
    \/ RecvCall
    \/ RecvLock
    \/ RecvCheck
    \/ RecvWait
    \/ SpuriousWake
    \/ TryRecvCall
    \/ TryLoad
    \/ TryLock1
    \/ TryLock2

Spec == Init /\ [][Next]_vars

\* Every step inside an operation that has been called is eventually taken;
\* which operations are called, and spurious wake-ups, are not forced.
FairSpec ==
    /\ Init
    /\ [][Next]_vars
    /\ \A p \in Producers : WF_vars(ProducerStep(p))
    /\ WF_vars(ConsumerStep)

TypeOK ==
    /\ lock \in {Free, Rx} \cup Producers
    /\ closed \in BOOLEAN
    /\ num_senders \in 0..NumProducers
    /\ Len(elements) <= MaxSends

\* ---- helpers of the properties ----
IsPrefix(s, t) == Len(s) <= Len(t) /\ \A i \in 1..Len(s) : s[i] = t[i]

SeqToBag(s) == [x \in Range(s) |-> Cardinality({i \in 1..Len(s) : s[i] = x})]

InSend(p) == ppc[p] \in {"s_lock", "s_check", "s_push"}

TryPcs == {"t_load", "t_lock1", "t_lock2"}

TryRank(pc) == CASE pc = "t_load" -> 1 [] pc = "t_lock1" -> 2 [] pc = "t_lock2" -> 3 [] OTHER -> 4

TryStep == TryLoad \/ TryLock1 \/ TryLock2

ConsumerReturns == cpc # "idle" /\ cpc' = "idle"

TryRecvReturns == cpc \in TryPcs /\ cpc' = "idle"

AllHandlesDropped == ppc[1] = "gone" /\ \A p \in Producers : ppc[p] \in {"none", "gone"}

\* C1: the items returned by recv/try_recv, in order, are an initial part of
\* the items in the order the sends appended them; and two items sent by the
\* same thread are returned in the order that thread sent them.
C1_FifoDelivery ==
    /\ IsPrefix(recvLog, sentLog)
    /\ \A i \in 1..Len(recvLog) : \A j \in 1..Len(recvLog) :
          (i < j /\ recvLog[i][1] = recvLog[j][1]) => recvLog[i][2] < recvLog[j][2]

\* two producers raced: the send called second took the lock first, and its
\* item was received first
C1_Witness ==
    /\ Len(recvLog) >= 2
    /\ recvLog[1][1] # recvLog[2][1]
    /\ recvLog[1][2] > recvLog[2][2]

\* C2: the multiset of items whose send returned Ok is the multiset of items
\* already received plus the items in the queue; a consumer that has received
\* as many items as were sent has received each sent item exactly once.
C2_Conservation ==
    /\ SetToBag(okSent) = SeqToBag(recvLog) (+) SeqToBag(elements)
    /\ Len(recvLog) = Cardinality(okSent) =>
          /\ Range(recvLog) = okSent
          /\ Cardinality(Range(recvLog)) = Len(recvLog)

C2_Witness ==
    /\ Len(recvLog) = Cardinality(okSent)
    /\ Len(recvLog) >= 2
    /\ \E x \in okSent : \E y \in okSent : x[1] # y[1]

\* C3: a send that was called after some close() had returned does not change
\* the queue in any of its steps and returns ChannelClosed.
C3_CloseBlocksSends ==
    [][\A p \in Producers :
          (afterClose[p] /\ InSend(p) /\ ppc'[p] # ppc[p]) =>
              /\ elements' = elements
              /\ ppc'[p] = "idle" => pres' = Result("send", "ChannelClosed", TRUE)]_vars

C3_Witness ==
    /\ pres = Result("send", "ChannelClosed", TRUE)
    /\ elements # <<>>
    /\ \A p \in Producers : ~InSend(p)

\* C4: when recv or try_recv returns ChannelClosed the queue is empty, and
\* every item that was queued when closed became true has been returned.
C4_DrainBeforeClosed ==
    [][(ConsumerReturns /\ cres' = "ChannelClosed") =>
          /\ elements = <<>>
          /\ elements' = <<>>
          /\ closeSnapshot \subseteq Range(recvLog)]_vars

C4_Witness ==
    /\ cpc = "idle"
    /\ cres = "ChannelClosed"
    /\ Cardinality(closeSnapshot) >= 2

\* C5: once all producer handles are dropped, a consumer waiting on the
\* condition eventually returns ChannelClosed from recv.
C5_AutoCloseWakes ==
    (AllHandlesDropped /\ cpc = "r_wait") ~> (cpc = "idle" /\ cres = "ChannelClosed")

\* C6: if the consumer is waiting on the condition and a close() has returned
\* with no send in progress, recv eventually returns ChannelClosed.
C6_CloseWakes ==
    (cpc = "r_wait" /\ closeReturned /\ \A p \in Producers : ~InSend(p))
        ~> (cpc = "idle" /\ cres = "ChannelClosed")

\* C7: a try_recv that takes the lock and finds the queue empty returns
\* ChannelClosed if closed is true at that moment, and ChannelEmpty otherwise.
C7_EmptyProbeResult ==
    [][(TryRecvReturns /\ lock = Free /\ elements = <<>>) =>
          cres' = IF closed THEN "ChannelClosed" ELSE "ChannelEmpty"]_vars

\* C8: inside try_recv the consumer always has a step it can take, whatever
\* the lock holder and the channel state, and each step moves it strictly
\* forward through at most three positions to the return.
C8_ProbeNeverBlocks ==
    /\ [](cpc \in TryPcs => ENABLED TryStep)
    /\ [][(cpc \in TryPcs /\ cpc' # cpc) => TryRank(cpc') > TryRank(cpc)]_vars

C8_Witness ==
    /\ cpc = "t_lock2"
    /\ lock \in Producers
    /\ closed

\* C9: try_recv returns RecvBlocked only when a producer holds the lock at
\* its lock attempt; with the lock free it returns an item, ChannelEmpty or
\* ChannelClosed.
C9_BlockedOnlyOnContention ==
    [][TryRecvReturns =>
          /\ cres' = "RecvBlocked" => lock \in Producers
          /\ lock = Free => cres' \in {"Item", "ChannelEmpty", "ChannelClosed"}]_vars

C9_Witness ==
    /\ cpc = "idle"
    /\ cres = "RecvBlocked"

\* C10: close() returns Ok, and on a channel that is already closed it leaves
\* closed, the queue and num_senders as they were.
C10_IdempotentClose ==
    [][\A p \in Producers : Close(p) =>
          /\ pres'.op = "close" /\ pres'.res = "Ok"
          /\ closed' = TRUE
          /\ closed => /\ elements' = elements
                       /\ num_senders' = num_senders
                       /\ closed' = closed]_vars

C10_Witness ==
    /\ pres = Result("close", "Ok", TRUE)
    /\ closeReturned
    /\ elements # <<>>

\* ---- helpers of the properties, producer side ----
\* handles that exist: created and not yet destroyed (a drop in progress included)
LiveHandles == {p \in Producers : ppc[p] \notin {"none", "pending", "gone"}}

\* handles whose clone() has counted them but not yet returned them
PendingHandles == {p \in Producers : ppc[p] = "pending"}

DropInProgress == \E p \in Producers : ppc[p] \in {"d_store", "d_sub"}

CloneInProgress == \E p \in Producers : ppc[p] = "cl_ret"

RecvPcs == {"r_lock", "r_check", "r_towait", "r_wait", "r_woken"}

\* C11: once closed is true it stays true: no step writes false to it.
C11_ClosedMonotonic ==
    [][closed => closed']_vars

C11_Witness ==
    /\ closed
    /\ pres = Result("close", "Ok", TRUE)
    /\ \E p \in Producers : ppc[p] = "gone"
    /\ cres = "ChannelClosed"

\* C12: once a recv or try_recv has returned ChannelClosed, no later recv or
\* try_recv returns an item and no later send returns Ok or appends.
C12_ClosedIsFinal ==
    [][closedSeen =>
          /\ recvLog' = recvLog
          /\ cres' # "Item"
          /\ okSent' = okSent
          /\ elements' = elements
          /\ \A p \in Producers :
                (InSend(p) /\ ppc'[p] = "idle") => pres' = Result("send", "ChannelClosed", afterClose[p])]_vars

C12_Witness ==
    /\ closedSeen
    /\ pres = Result("send", "ChannelClosed", FALSE)
    /\ cres = "ChannelEmpty"

\* C13: when every producer handle has been dropped and num_senders is 0,
\* closed is true.
C13_ZeroImpliesClosed ==
    (AllHandlesDropped /\ num_senders = 0) => closed

\* C14: once closed is true and the queue is empty, both stay so.
C14_ClosedAbsorbing ==
    [][(closed /\ elements = <<>>) => (closed' /\ elements' = <<>>)]_vars

\* C15: num_senders is at least the number of live producer handles, equals
\* it when no clone and no drop is in progress, and never goes below 0.
C15_CountCoversHandles ==
    /\ num_senders >= Cardinality(LiveHandles)
    /\ (~CloneInProgress /\ ~DropInProgress) => num_senders = Cardinality(LiveHandles)
    /\ num_senders >= 0
    /\ LiveHandles # {} => num_senders >= 1

\* a clone is in progress: the count is already one ahead of the live handles
C15_Witness ==
    /\ \E p \in Producers : ppc[p] = "cl_ret"
    /\ PendingHandles # {}
    /\ num_senders = Cardinality(LiveHandles) + 1

\* C16: no send appends an item to the queue in a state where closed is true.
C16_NoSendCloseRace ==
    [][Len(elements') > Len(elements) => ~closed]_vars

\* C17: whenever the consumer is inside recv and the queue holds an item
\* (a send returned Ok), that recv eventually returns an item.
C17_NoLostWakeup ==
    (cpc \in RecvPcs /\ elements # <<>>) ~> (cpc = "idle" /\ cres = "Item")

\* the consumer was waiting on the condition and a send has notified it
C17_Witness ==
    /\ cpc = "r_woken"
    /\ elements # <<>>
    /\ pres = Result("send", "Ok", FALSE)

\* C18: when recv holds the lock on a closed, empty channel, its next step
\* returns ChannelClosed; it does not go on to wait on the condition.
C18_ClosedRecvDoesNotWait ==
    [][(cpc = "r_check" /\ closed /\ elements = <<>> /\ cpc' # cpc) =>
          (cpc' = "idle" /\ cres' = "ChannelClosed" /\ lock' = Free)]_vars

C18_Witness ==
    /\ cpc = "r_check"
    /\ closed
    /\ elements = <<>>
    /\ sentLog # <<>>

\* C19: after any return of the wait, recv takes the lock and checks again;
\* with the queue empty it waits again or returns ChannelClosed, and it
\* returns an item only by popping the front of a non-empty queue.
C19_SpuriousWakeupTolerated ==
    /\ [][(cpc = "r_woken" /\ cpc' # cpc) => (cpc' = "r_check" /\ lock' = Rx)]_vars
    /\ [][(cpc = "r_check" /\ elements = <<>> /\ cpc' # cpc) =>
             (cpc' = "r_towait" \/ (cpc' = "idle" /\ cres' = "ChannelClosed"))]_vars
    /\ [][(cpc \in RecvPcs /\ cpc' = "idle") =>
             \/ /\ cres' = "Item"
                /\ elements # <<>>
                /\ recvLog' = Append(recvLog, Head(elements))
             \/ /\ cres' = "ChannelClosed"
                /\ elements = <<>>]_vars

\* the wait returned although nothing was sent and the channel is open
C19_Witness ==
    /\ cpc = "r_woken"
    /\ elements = <<>>
    /\ ~closed

====
